---------------------------- MODULE Spec2Model ----------------------------
(***************************************************************************)
(* A model of the parser combinators (src/src/parsing/combinator.rs) and   *)
(* of the format-description AST builder                                   *)
(* (src/time/src/format_description/parse/ast.rs).                         *)
(*                                                                         *)
(* Text is a sequence of one-character strings.  A combinator takes the    *)
(* cursor (the remaining input) and yields a record                        *)
(*    [ok, str, num, rest]                                                 *)
(* ok   : Some(..) or None;                                                *)
(* str  : the &str of Some(&str), <<>> otherwise;                          *)
(* num  : the number of Some(number), -1 otherwise;                        *)
(* rest : the value of `*input` when the closure returns.  A closure that  *)
(*        is not wrapped in lazy_mut may return None with `*input`         *)
(*        advanced, so rest is kept on failure too.                        *)
(*                                                                         *)
(* The AST builder reads a sequence of tokens [type, kind, value, span] at *)
(* a position pos (the index of the token `tokens.peek()` shows) and       *)
(* yields [kind |-> "Ok", ..., pos], [kind |-> "Err", error, pos] or, for  *)
(* an `unreachable!`, [kind |-> "Panic", message, pos]; pos is the         *)
(* position the token iterator is left at.                                 *)
(***************************************************************************)
EXTENDS Integers, Sequences, FiniteSets, TLC

VARIABLES cursor, call, text, stream, parsed

vars == <<cursor, call, text, stream, parsed>>

(***************************************************************************)
(* Bounds of the model.                                                    *)
(***************************************************************************)
\* longest input text given to a combinator
MaxLen == 4
\* largest repetition count / field width given to a combinator
MaxN == 4

---------------------------------------------------------------------------
(***************************************************************************)
(* Text helpers.                                                           *)
(***************************************************************************)
Digits == {"0", "1", "2", "3", "4", "5", "6", "7", "8", "9"}

DigitVal(c) ==
    CASE c = "0" -> 0 [] c = "1" -> 1 [] c = "2" -> 2 [] c = "3" -> 3
      [] c = "4" -> 4 [] c = "5" -> 5 [] c = "6" -> 6 [] c = "7" -> 7
      [] c = "8" -> 8 [] c = "9" -> 9

\* the characters the enumerated inputs are made of
Alphabet == {"0", "9", " ", "a"}

Drop(s, k) == SubSeq(s, k + 1, Len(s))

Take(s, k) == SubSeq(s, 1, k)

\* str::strip_prefix / starts_with
StartsWith(s, prefix) ==
    /\ Len(prefix) <= Len(s)
    /\ Take(s, Len(prefix)) = prefix

RECURSIVE SeqsUpTo(_, _)
SeqsUpTo(S, k) ==
    IF k = 0 THEN {<<>>}
    ELSE LET shorter == SeqsUpTo(S, k - 1)
         IN  shorter \cup {Append(s, c) : s \in {t \in shorter : Len(t) = k - 1}, c \in S}

None(rest) == [ok |-> FALSE, str |-> <<>>, num |-> -1, rest |-> rest]

SomeStr(s, rest) == [ok |-> TRUE, str |-> s, num |-> -1, rest |-> rest]

SomeNum(v, rest) == [ok |-> TRUE, str |-> <<>>, num |-> v, rest |-> rest]

---------------------------------------------------------------------------
(***************************************************************************)
(* The integer types a digit run is converted to (trait Integer).          *)
(***************************************************************************)
U8_MAX == 255
U16_MAX == 65535

IntegerTypes == {"u8", "u16", "NonZeroU8"}

MaxOf(T) == IF T = "u16" THEN U16_MAX ELSE U8_MAX

IsNonZero(T) == T = "NonZeroU8"

RECURSIVE Decimal(_)
Decimal(s) ==
    IF s = <<>> THEN 0
    ELSE 10 * Decimal(Take(s, Len(s) - 1)) + DigitVal(s[Len(s)])

\* a conversion that wraps around in place of failing
parse_ok_wrapping(value, T) ==
    IF value = <<>> THEN [ok |-> FALSE, num |-> -1]
    ELSE LET v == Decimal(value) % (MaxOf(T) + 1)
         IN  IF IsNonZero(T) /\ v = 0
             THEN [ok |-> FALSE, num |-> -1]
             ELSE [ok |-> TRUE, num |-> v]

\* value.parse::<T>().ok() on a run of ASCII digits: [ok, num]
parse_ok(value, T) ==
    IF value = <<>> THEN [ok |-> FALSE, num |-> -1]
    ELSE LET v == Decimal(value)
         IN  IF v > MaxOf(T) \/ (IsNonZero(T) /\ v = 0)
             THEN [ok |-> FALSE, num |-> -1]
             ELSE [ok |-> TRUE, num |-> v]

---------------------------------------------------------------------------
(***************************************************************************)
(* The combinators.                                                        *)
(***************************************************************************)
\* lazy_mut: the wrapped parser ran on a copy of *orig_input and ended as r;
\* the copy is written back only when r is Some.
lazy_mut_always_commits(orig_input, r) == r

lazy_mut(orig_input, r) ==
    IF r.ok THEN r ELSE None(orig_input)

string(expected, input) ==
    IF StartsWith(input, expected)
    THEN SomeStr(expected, Drop(input, Len(expected)))
    ELSE None(input)

RECURSIVE first_string_of(_, _)
first_string_of(expected_one_of, input) ==
    IF expected_one_of = <<>> THEN None(input)
    ELSE LET r == string(Head(expected_one_of), input)
         IN  IF r.ok THEN r ELSE first_string_of(Tail(expected_one_of), r.rest)

\* options: a sequence of <<expected, t>>
RECURSIVE first_match(_, _)
first_match(options, input) ==
    IF options = <<>> THEN None(input)
    ELSE LET r == string(Head(options)[1], input)
         IN  IF r.ok THEN SomeNum(Head(options)[2], r.rest)
             ELSE first_match(Tail(options), r.rest)

any_digit(input) ==
    IF input # <<>> /\ input[1] \in Digits
    THEN SomeNum(48 + DigitVal(input[1]), Drop(input, 1))
    ELSE None(input)

ascii_char(char, input) ==
    IF input # <<>> /\ input[1] = char
    THEN SomeStr(<<>>, Drop(input, 1))
    ELSE None(input)

\* The parser handed to n_to_m, as data: [kind, arg].
AnyDigit == [kind |-> "any_digit", arg |-> <<>>]

AsciiChar(c) == [kind |-> "ascii_char", arg |-> <<c>>]

String(s) == [kind |-> "string", arg |-> s]

NoParser == [kind |-> "-", arg |-> <<>>]

Apply(parser, input) ==
    CASE parser.kind = "any_digit" -> any_digit(input)
      [] parser.kind = "ascii_char" -> ascii_char(parser.arg[1], input)
      [] parser.kind = "string" -> string(parser.arg, input)

\* for _ in 0..n { parser(input)?; }
RECURSIVE Mandatory(_, _, _)
Mandatory(k, parser, input) ==
    IF k = 0 THEN SomeStr(<<>>, input)
    ELSE LET r == Apply(parser, input)
         IN  IF r.ok THEN Mandatory(k - 1, parser, r.rest) ELSE None(r.rest)

\* for _ in n..m { if parser(input).is_none() { break; } }: the cursor after
RECURSIVE OptionalLoop(_, _, _)
OptionalLoop(k, parser, input) ==
    IF k = 0 THEN input
    ELSE LET r == Apply(parser, input)
         IN  IF r.ok THEN OptionalLoop(k - 1, parser, r.rest) ELSE r.rest

\* a loop over 0..m in place of n..m
n_to_m_closure_reruns_optional(n, m, parser, input) ==
    LET mandatory == Mandatory(n, parser, input)
    IN  IF ~mandatory.ok THEN mandatory
        ELSE LET after == OptionalLoop(m, parser, mandatory.rest)
             IN  SomeStr(Take(input, Len(input) - Len(after)), after)

\* the closure n_to_m hands to lazy_mut
n_to_m_closure(n, m, parser, input) ==
    LET orig_input == input
        mandatory == Mandatory(n, parser, input)
    IN  IF ~mandatory.ok THEN mandatory
        ELSE LET after == OptionalLoop(m - n, parser, mandatory.rest)
             IN  SomeStr(Take(orig_input, Len(orig_input) - Len(after)), after)

n_to_m(n, m, parser, input) ==
    lazy_mut(input, n_to_m_closure(n, m, parser, input))

exactly_n(n, parser, input) == n_to_m(n, n, parser, input)

\* parser(input).and_then(|v| map_fn(v)), map_fn = |value| value.parse().ok()
and_then_parse(r, T) ==
    IF ~r.ok THEN r
    ELSE LET v == parse_ok(r.str, T)
         IN  IF v.ok THEN SomeNum(v.num, r.rest) ELSE None(r.rest)

\* flat_map(parser, |value| value.parse().ok()); r is what parser(input) gave
flat_map(input, r, T) == lazy_mut(input, and_then_parse(r, T))

n_to_m_digits(n, m, T, input) ==
    flat_map(input, n_to_m(n, m, AnyDigit, input), T)

exactly_n_digits(n, T, input) == n_to_m_digits(n, n, T, input)

Paddings == {"None", "Space", "Zero"}

\* the digits are asked for at the full width, the pad run not subtracted
padded_closure_full_width(n, padding, T, input) ==
    IF padding = "None" THEN n_to_m_digits(1, n, T, input)
    ELSE LET pad == n_to_m(0, n, AsciiChar(IF padding = "Space" THEN " " ELSE "0"), input)
         IN  exactly_n_digits(n, T, pad.rest)

\* the pad run leaves the last byte of the field to the digits
padded_closure_pad_leaves_one(n, padding, T, input) ==
    IF padding = "None" THEN n_to_m_digits(1, n, T, input)
    ELSE LET most == IF n = 0 THEN 0 ELSE n - 1
             pad == n_to_m(0, most, AsciiChar(IF padding = "Space" THEN " " ELSE "0"), input)
             width == IF pad.ok THEN Len(pad.str) ELSE 0
         IN  exactly_n_digits(n - width, T, pad.rest)

\* n_to_m(0, n, ascii_char(b' ' or b'0'))(input), the pad run of a padded field
pad_run(n, padding, input) ==
    n_to_m(0, n, AsciiChar(IF padding = "Space" THEN " " ELSE "0"), input)

\* .map_or(0, |s| s.len() as u8)
pad_width(n, padding, input) ==
    LET pad == pad_run(n, padding, input)
    IN  IF pad.ok THEN Len(pad.str) ELSE 0

\* the closure exactly_n_digits_padded hands to lazy_mut
padded_closure(n, padding, T, input) ==
    IF padding = "None" THEN n_to_m_digits(1, n, T, input)
    ELSE exactly_n_digits(n - pad_width(n, padding, input), T,
                          pad_run(n, padding, input).rest)

exactly_n_digits_padded(n, padding, T, input) ==
    lazy_mut(input, padded_closure(n, padding, T, input))

---------------------------------------------------------------------------
(***************************************************************************)
(* The combinator specification: one call of one combinator on one input.  *)
(***************************************************************************)
Inputs == SeqsUpTo(Alphabet, MaxLen)
              \cup {<<"0", "0", "0", "5">>, <<" ", " ", "4", "2">>, <<"1", "2", "3", "4">>}

Expected == {<<>>, <<"a">>, <<"9", " ">>, <<"0", "0">>}

ExpectedLists == {<<<<"a">>, <<"a", "0">>>>, <<<<"a", "0">>, <<"a">>>>, <<<<"9">>, <<" ">>>>}

OptionLists == {<<<<<<"a">>, 1>>, <<<<"a", "0">>, 2>>>>, <<<<<<"0">>, 7>>, <<<<"9", "9">>, 8>>>>}

SubParsers == {AnyDigit, AsciiChar(" "), AsciiChar("0"), String(<<"9", " ">>)}

NotParsed == [kind |-> "-"]

NoCall ==
    [op |-> "-", n |-> 0, m |-> 0, parser |-> NoParser, padding |-> "-", T |-> "-",
     arg |-> <<>>, before |-> <<>>, ok |-> FALSE, str |-> <<>>, num |-> -1]

\* the record of a call: its parameters, the cursor before it, what it gave
Called(op, n, m, parser, padding, T, arg, r) ==
    [op |-> op, n |-> n, m |-> m, parser |-> parser, padding |-> padding, T |-> T,
     arg |-> arg, before |-> cursor, ok |-> r.ok, str |-> r.str, num |-> r.num]

Do(op, n, m, parser, padding, T, arg, r) ==
    /\ call.op = "-"
    /\ call' = Called(op, n, m, parser, padding, T, arg, r)
    /\ cursor' = r.rest
    /\ UNCHANGED <<text, stream, parsed>>

CallString ==
    \E e \in Expected : Do("string", 0, 0, NoParser, "-", "-", e, string(e, cursor))

CallFirstStringOf ==
    \E l \in ExpectedLists :
        Do("first_string_of", 0, 0, NoParser, "-", "-", l, first_string_of(l, cursor))

CallFirstMatch ==
    \E o \in OptionLists :
        Do("first_match", 0, 0, NoParser, "-", "-", o, first_match(o, cursor))

CallAnyDigit == Do("any_digit", 0, 0, NoParser, "-", "-", <<>>, any_digit(cursor))

CallAsciiChar ==
    \E c \in Alphabet :
        Do("ascii_char", 0, 0, NoParser, "-", "-", <<c>>, ascii_char(c, cursor))

\* debug_assert!(m >= n)
CallNToM ==
    \E n \in 0..MaxN, m \in 0..MaxN, p \in SubParsers :
        /\ m >= n
        /\ Do("n_to_m", n, m, p, "-", "-", <<>>, n_to_m(n, m, p, cursor))

CallExactlyN ==
    \E n \in 0..MaxN, p \in SubParsers :
        Do("exactly_n", n, n, p, "-", "-", <<>>, exactly_n(n, p, cursor))

\* flat_map over a parser that is not itself atomic: the bare n_to_m closure
CallFlatMap ==
    \E n \in 0..MaxN, m \in 0..MaxN, T \in IntegerTypes :
        /\ m >= n
        /\ Do("flat_map", n, m, AnyDigit, "-", T, <<>>,
              flat_map(cursor, n_to_m_closure(n, m, AnyDigit, cursor), T))

CallNToMDigits ==
    \E n \in 0..MaxN, m \in 0..MaxN, T \in IntegerTypes :
        /\ m >= n
        /\ Do("n_to_m_digits", n, m, AnyDigit, "-", T, <<>>, n_to_m_digits(n, m, T, cursor))

CallExactlyNDigits ==
    \E n \in 0..MaxN, T \in IntegerTypes :
        Do("exactly_n_digits", n, n, AnyDigit, "-", T, <<>>, exactly_n_digits(n, T, cursor))

\* Padding::None calls n_to_m_digits(1, n), whose debug_assert!(m >= n) needs n >= 1
CallExactlyNDigitsPadded ==
    \E n \in 0..MaxN, padding \in Paddings, T \in IntegerTypes :
        /\ padding = "None" => n >= 1
        /\ Do("exactly_n_digits_padded", n, n, NoParser, padding, T, <<>>,
              exactly_n_digits_padded(n, padding, T, cursor))

Init ==
    /\ cursor \in Inputs
    /\ call = NoCall
    /\ text = <<>>
    /\ stream = <<>>
    /\ parsed = NotParsed

Next ==
    \/ CallString
    \/ CallFirstStringOf
    \/ CallFirstMatch
    \/ CallAnyDigit
    \/ CallAsciiChar
    \/ CallNToM
    \/ CallExactlyN
    \/ CallFlatMap
    \/ CallNToMDigits
    \/ CallExactlyNDigits
    \/ CallExactlyNDigitsPadded

Spec == Init /\ [][Next]_vars

---------------------------------------------------------------------------
(***************************************************************************)
(* What the combinator claims speak of, stated on the text alone.          *)
(***************************************************************************)
Min(a, b) == IF a < b THEN a ELSE b

\* the length of the longest prefix of s made of characters of S
RECURSIVE LeadingRun(_, _)
LeadingRun(S, s) ==
    IF s # <<>> /\ s[1] \in S THEN 1 + LeadingRun(S, Tail(s)) ELSE 0

\* the bytes one match of the sub-parser takes
MatchLen(parser) == IF parser.kind = "string" THEN Len(parser.arg) ELSE 1

\* the number k of consecutive matches of the sub-parser the text starts with
RECURSIVE LeadingMatches(_, _)
LeadingMatches(parser, s) ==
    CASE parser.kind = "any_digit" -> LeadingRun(Digits, s)
      [] parser.kind = "ascii_char" -> LeadingRun({parser.arg[1]}, s)
      [] parser.kind = "string" ->
            IF StartsWith(s, parser.arg)
            THEN 1 + LeadingMatches(parser, Drop(s, Len(parser.arg)))
            ELSE 0

\* a digit run denotes a value of type T
Converts(run, T) ==
    /\ run # <<>>
    /\ Decimal(run) <= MaxOf(T)
    /\ IsNonZero(T) => Decimal(run) # 0

Made == call.op # "-"

NoMatchLeavesCursor == ~call.ok => cursor = call.before

\* C1: whenever a combinator returns no match, the cursor after the call is
\* the cursor before the call, whatever an inner step consumed on the way.
C1_Atomicity == Made => NoMatchLeavesCursor

\* a conversion failed after the digits were consumed, a mandatory
\* repetition failed part-way, a pad run was consumed before the digits failed
C1_Witness ==
    \/ /\ call.op = "flat_map" /\ ~call.ok /\ call.T = "u8"
       /\ call.before = <<"9", "9", "9">> /\ call.m = 3
    \/ /\ call.op = "n_to_m" /\ ~call.ok /\ call.n = 3
       /\ LeadingMatches(call.parser, call.before) = 2
    \/ /\ call.op = "exactly_n_digits_padded" /\ ~call.ok /\ call.padding = "Space"
       /\ call.n = 3 /\ call.before = <<" ", " ", "a">>

\* C2: on a text starting with exactly k matches of p, n_to_m(n, m, p)
\* succeeds iff k >= n, then consumes min(k, m) matches and returns exactly
\* the consumed prefix; when k < n it consumes nothing.  exactly_n(n, p) is
\* the case m = n.
C2_GreedyRepetition ==
    call.op \in {"n_to_m", "exactly_n"} =>
        LET k == LeadingMatches(call.parser, call.before)
            taken == Min(k, call.m) * MatchLen(call.parser)
        IN  /\ call.op = "exactly_n" => call.m = call.n
            /\ call.ok <=> k >= call.n
            /\ call.ok => /\ call.str = Take(call.before, taken)
                          /\ cursor = Drop(call.before, taken)
            /\ ~call.ok => cursor = call.before

\* more matches than m are there and the optional part takes some of them
C2_Witness ==
    /\ call.op = "n_to_m" /\ call.ok
    /\ call.n = 1 /\ call.m = 3
    /\ LeadingMatches(call.parser, call.before) = 4
    /\ Len(call.str) = 3 /\ Len(cursor) = 1

\* what exactly_n_digits_padded(n, padding) is to give on the text s:
\* [ok, num, taken]
PaddedExpected(n, padding, T, s) ==
    LET padChar == IF padding = "Space" THEN " " ELSE "0"
        padWidth == IF padding = "None" THEN 0 ELSE Min(LeadingRun({padChar}, s), n)
        afterPad == Drop(s, padWidth)
        d == LeadingRun(Digits, afterPad)
        width == IF padding = "None" THEN Min(d, n) ELSE n - padWidth
        run == Take(afterPad, Min(width, Len(afterPad)))
        enough == IF padding = "None" THEN d >= 1 ELSE d >= width
    IN  IF enough /\ Converts(run, T)
        THEN [ok |-> TRUE, num |-> Decimal(run), taken |-> padWidth + width]
        ELSE [ok |-> FALSE, num |-> -1, taken |-> 0]

\* C3: with padding None a greedy run of 1..=n digits is parsed; with Space
\* (Zero) the leading run of at most n ' ' ('0') characters is consumed and
\* exactly n - pad_width digits must follow, whose value is returned.  With
\* n = 4: Zero on "0005" gives 5, Space on "  42" gives 42, None on "1234"
\* gives 1234 (in a type that holds it); a text with more than n leading pad
\* characters is rejected.
C3_PaddedField ==
    call.op = "exactly_n_digits_padded" =>
        LET e == PaddedExpected(call.n, call.padding, call.T, call.before)
            padChar == IF call.padding = "Zero" THEN "0" ELSE " "
        IN  /\ call.ok = e.ok
            /\ call.num = e.num
            /\ cursor = Drop(call.before, e.taken)
            /\ (call.n = 4 /\ call.padding = "Zero" /\ call.before = <<"0", "0", "0", "5">>)
                   => call.ok /\ call.num = 5
            /\ (call.n = 4 /\ call.padding = "Space" /\ call.before = <<" ", " ", "4", "2">>)
                   => call.ok /\ call.num = 42
            /\ (call.n = 4 /\ call.padding = "None" /\ call.T = "u16"
                    /\ call.before = <<"1", "2", "3", "4">>)
                   => call.ok /\ call.num = 1234
            /\ LeadingRun({padChar}, call.before) > call.n => ~call.ok

\* a zero-padded field of width 4 holding 9, pad run then digits
C3_Witness ==
    /\ call.op = "exactly_n_digits_padded" /\ call.ok
    /\ call.n = 4 /\ call.padding = "Zero"
    /\ call.before = <<"0", "0", "0", "9">>
    /\ call.num = 9 /\ cursor = <<>>

\* C4: n_to_m_digits(n, m) and exactly_n_digits(n) return no match, with the
\* cursor unchanged, when the digit run is out of the target type's range, is
\* empty, or is zero for a non-zero type; otherwise they return the value of
\* the run and consume exactly the run.
C4_ConversionFailure ==
    call.op \in {"n_to_m_digits", "exactly_n_digits"} =>
        LET d == LeadingRun(Digits, call.before)
            run == Take(call.before, Min(d, call.m))
        IN  IF d >= call.n /\ Converts(run, call.T)
            THEN /\ call.ok
                 /\ call.num = Decimal(run)
                 /\ cursor = Drop(call.before, Len(run))
            ELSE /\ ~call.ok
                 /\ cursor = call.before

\* "999" does not fit eight bits
C4_Witness ==
    /\ call.op = "n_to_m_digits" /\ ~call.ok
    /\ call.T = "u8" /\ call.n = 1 /\ call.m = 3
    /\ call.before = <<"9", "9", "9">>
    /\ cursor = call.before

\* the first n bytes of s are all the byte c
AllPad(n, c, s) ==
    /\ Len(s) >= n
    /\ \A i \in 1..n : s[i] = c

---------------------------------------------------------------------------
(***************************************************************************)
(* Locations, spans and tokens.  A Location is a byte index; a Span is     *)
(* [start, end], the locations of its first and last byte.                 *)
(***************************************************************************)
Span(start, end) == [start |-> start, end |-> end]

shrink_to_start(span) == Span(span.start, span.start)

shrink_to_end(span) == Span(span.end, span.end)

shrink_to_before(span, pos) == Span(span.start, span.start + pos - 1)

shrink_to_after(span, pos) == Span(span.start + pos + 1, span.end)

offset(location, n) == location + n

\* value.spanned(span)
Spanned(value, span) == [value |-> value, span |-> span]

Token(type, kind, value, start) ==
    [type |-> type, kind |-> kind, value |-> value,
     span |-> Span(start, start + Len(value) - 1)]

EndOfTokens == [type |-> "-", kind |-> "-", value |-> <<>>, span |-> Span(0, 0)]

\* tokens.peek()
Peek(tokens, pos) == IF pos <= Len(tokens) THEN tokens[pos] ELSE EndOfTokens

IsBracket(t, kind) == t.type = "Bracket" /\ t.kind = kind

IsComponentPart(t, kind) == t.type = "ComponentPart" /\ t.kind = kind

\* the location of a Bracket token
LocationOf(t) == t.span.start

OPTIONAL == <<"o", "p", "t", "i", "o", "n", "a", "l">>

Ok(item, pos) == [kind |-> "Ok", item |-> item, pos |-> pos]

Err(public, index, value, what, pos) ==
    [kind |-> "Err",
     error |-> [public |-> public, index |-> index, value |-> value, what |-> what],
     pos |-> pos]

Panic(message, pos) == [kind |-> "Panic", message |-> message, pos |-> pos]

---------------------------------------------------------------------------
(***************************************************************************)
(* parse_component, parse_nested and parse_inner.                          *)
(***************************************************************************)
\* `if let Some(ComponentPart { kind: Whitespace, value }) = tokens.peek()`:
\* the Option, as a sequence of at most one Spanned value
whitespace_at(tokens, pos) ==
    IF IsComponentPart(Peek(tokens, pos), "Whitespace")
    THEN <<Spanned(Peek(tokens, pos).value, Peek(tokens, pos).span)>>
    ELSE <<>>

\* the zero-width span is put one byte after the bracket
missing_component_name_after_bracket(opening_bracket, leading_whitespace, pos) ==
    LET span == IF leading_whitespace # <<>> THEN leading_whitespace[1].span
                ELSE Span(opening_bracket + 1, opening_bracket + 1)
    IN  Err("MissingComponentName", span.start, <<>>, "", pos)

missing_component_name(opening_bracket, leading_whitespace, pos) ==
    LET span == IF leading_whitespace # <<>> THEN leading_whitespace[1].span
                ELSE Span(opening_bracket, opening_bracket)
    IN  Err("MissingComponentName", span.start, <<>>, "", pos)

unclosed_opening_bracket(opening_bracket, pos) ==
    Err("UnclosedOpeningBracket", opening_bracket, <<>>, "", pos)

\* value.iter().position(|&b| b == b':'), -1 for None
RECURSIVE colon_index_last(_)
colon_index_last(value) ==
    IF value = <<>> THEN -1
    ELSE IF value[Len(value)] = ":" THEN Len(value) - 1
    ELSE colon_index_last(Take(value, Len(value) - 1))

RECURSIVE colon_index(_)
colon_index(value) ==
    IF value = <<>> THEN -1
    ELSE IF value[1] = ":" THEN 0
    ELSE LET later == colon_index(Tail(value))
         IN  IF later = -1 THEN -1 ELSE later + 1

\* the colon is recorded at the start of the token
new_modifier_colon_at_start(whitespace, value, span, index) ==
    [leading_whitespace |-> whitespace,
     key |-> Spanned(Take(value, index), shrink_to_before(span, index)),
     colon |-> span.start,
     value |-> Spanned(Drop(value, index + 1), shrink_to_after(span, index))]

\* Modifier { _leading_whitespace, key, _colon, value }
new_modifier(whitespace, value, span, index) ==
    [leading_whitespace |-> whitespace,
     key |-> Spanned(Take(value, index), shrink_to_before(span, index)),
     colon |-> offset(span.start, index),
     value |-> Spanned(Drop(value, index + 1), shrink_to_after(span, index))]

\* the empty value is reported at the start of the token
modifier_empty_value_at_start(whitespace, token, pos) ==
    LET value == token.value
        span == token.span
        index == colon_index(value)
    IN  IF index = -1
        THEN Err("InvalidModifier", span.start, value, "", pos)
        ELSE IF Take(value, index) = <<>>
        THEN Err("InvalidModifier", span.start, <<>>, "", pos)
        ELSE IF Drop(value, index + 1) = <<>>
        THEN Err("InvalidModifier", shrink_to_start(span).start, <<>>, "", pos)
        ELSE Ok(new_modifier(whitespace, value, span, index), pos)

\* one NotWhitespace token read as a modifier; pos is past the token
modifier(whitespace, token, pos) ==
    LET value == token.value
        span == token.span
        index == colon_index(value)
    IN  IF index = -1
        THEN Err("InvalidModifier", span.start, value, "", pos)
        ELSE IF Take(value, index) = <<>>
        THEN Err("InvalidModifier", span.start, <<>>, "", pos)
        ELSE IF Drop(value, index + 1) = <<>>
        THEN Err("InvalidModifier", shrink_to_end(span).start, <<>>, "", pos)
        ELSE Ok(new_modifier(whitespace, value, span, index), pos)

\* the `loop` of parse_component:
\* [kind |-> "Ok", modifiers, trailing_whitespace, pos] or an Err
RECURSIVE modifiers_loop(_, _, _)
modifiers_loop(modifiers, tokens, pos) ==
    LET whitespace == whitespace_at(tokens, pos)
        next == Peek(tokens, pos + 1)
    IN  IF whitespace = <<>>
        THEN [kind |-> "Ok", modifiers |-> modifiers,
              trailing_whitespace |-> <<>>, pos |-> pos]
        ELSE IF IsBracket(next, "Opening")
        THEN Err("InvalidModifier", LocationOf(next), <<"[">>, "", pos + 1)
        ELSE IF IsComponentPart(next, "NotWhitespace")
        THEN LET m == modifier(whitespace[1], next, pos + 2)
             IN  IF m.kind = "Ok"
                 THEN modifiers_loop(Append(modifiers, m.item), tokens, pos + 2)
                 ELSE m
        ELSE [kind |-> "Ok", modifiers |-> modifiers,
              trailing_whitespace |-> whitespace, pos |-> pos + 1]

\* the non-`optional` rest of parse_component, from the modifiers on
plain_component(opening_bracket, leading_whitespace, name, tokens, pos) ==
    LET loop == modifiers_loop(<<>>, tokens, pos)
    IN  IF loop.kind # "Ok" THEN loop
        ELSE IF IsBracket(Peek(tokens, loop.pos), "Closing")
        THEN Ok([item |-> "Component",
                 opening_bracket |-> opening_bracket,
                 leading_whitespace |-> leading_whitespace,
                 name |-> name,
                 modifiers |-> loop.modifiers,
                 trailing_whitespace |-> loop.trailing_whitespace,
                 closing_bracket |-> LocationOf(Peek(tokens, loop.pos))],
                loop.pos + 1)
        ELSE unclosed_opening_bracket(opening_bracket, loop.pos)

RECURSIVE parse_component(_, _, _)
RECURSIVE parse_nested(_, _, _)
RECURSIVE parse_inner(_, _, _)
RECURSIVE collect(_, _, _, _)

\* the closing bracket of an `optional` component, after its nested
\* description: the unclosed bracket reported is the nested one
close_optional_blames_nested(opening_bracket, leading_whitespace, name, whitespace, nested, tokens) ==
    IF IsBracket(Peek(tokens, nested.pos), "Closing")
    THEN Ok([item |-> "Optional",
             opening_bracket |-> opening_bracket,
             leading_whitespace |-> leading_whitespace,
             optional_kw |-> name,
             whitespace |-> whitespace,
             nested_format_description |-> nested.item,
             closing_bracket |-> LocationOf(Peek(tokens, nested.pos))],
            nested.pos + 1)
    ELSE unclosed_opening_bracket(nested.item.opening_bracket, nested.pos)

\* the closing bracket of an `optional` component, after its nested description
close_optional(opening_bracket, leading_whitespace, name, whitespace, nested, tokens) ==
    IF IsBracket(Peek(tokens, nested.pos), "Closing")
    THEN Ok([item |-> "Optional",
             opening_bracket |-> opening_bracket,
             leading_whitespace |-> leading_whitespace,
             optional_kw |-> name,
             whitespace |-> whitespace,
             nested_format_description |-> nested.item,
             closing_bracket |-> LocationOf(Peek(tokens, nested.pos))],
            nested.pos + 1)
    ELSE unclosed_opening_bracket(opening_bracket, nested.pos)

\* `if *name == b"optional"`, pos past the name
optional_component(opening_bracket, leading_whitespace, name, tokens, pos) ==
    LET whitespace == whitespace_at(tokens, pos)
    IN  IF whitespace # <<>>
        THEN LET nested == parse_nested(whitespace[1].span.end, tokens, pos + 1)
             IN  IF nested.kind # "Ok" THEN nested
                 ELSE close_optional(opening_bracket, leading_whitespace, name,
                                     whitespace[1], nested, tokens)
        ELSE Err("Expected", name.span.end, <<>>, "whitespace after optional", pos)

\* pos is past the opening bracket
parse_component(opening_bracket, tokens, pos) ==
    LET leading_whitespace == whitespace_at(tokens, pos)
        at == pos + Len(leading_whitespace)
        next == Peek(tokens, at)
    IN  IF ~IsComponentPart(next, "NotWhitespace")
        THEN missing_component_name(opening_bracket, leading_whitespace, at)
        ELSE LET name == Spanned(next.value, next.span)
             IN  IF name.value = OPTIONAL
                 THEN optional_component(opening_bracket, leading_whitespace, name,
                                         tokens, at + 1)
                 ELSE plain_component(opening_bracket, leading_whitespace, name,
                                      tokens, at + 1)

\* the closing bracket and the trailing whitespace of a nested description;
\* items is what the collect gave, an Ok
close_nested(opening_bracket, items, tokens) ==
    IF IsBracket(Peek(tokens, items.pos), "Closing")
    THEN LET trailing_whitespace == whitespace_at(tokens, items.pos + 1)
         IN  Ok([opening_bracket |-> opening_bracket,
                 items |-> items.item,
                 closing_bracket |-> LocationOf(Peek(tokens, items.pos)),
                 trailing_whitespace |-> trailing_whitespace],
                items.pos + 1 + Len(trailing_whitespace))
    ELSE unclosed_opening_bracket(opening_bracket, items.pos)

parse_nested(last_location, tokens, pos) ==
    IF IsBracket(Peek(tokens, pos), "Opening")
    THEN LET opening_bracket == LocationOf(Peek(tokens, pos))
             items == collect(TRUE, <<>>, tokens, pos + 1)
         IN  IF items.kind # "Ok" THEN items
             ELSE close_nested(opening_bracket, items, tokens)
    ELSE Err("Expected", last_location, <<>>, "opening bracket", pos)

\* a ComponentPart met by parse_inner (the last two arms of its match)
component_part(NESTED, token, pos) ==
    IF NESTED
    THEN Ok([item |-> "Literal", value |-> token.value, span |-> token.span], pos + 1)
    ELSE Panic("component part should have been consumed by parse_component", pos + 1)

\* one call of the closure of iter::from_fn; [kind |-> "None"] ends the iterator
parse_inner(NESTED, tokens, pos) ==
    LET token == Peek(tokens, pos)
    IN  IF NESTED /\ IsBracket(token, "Closing") THEN [kind |-> "None", pos |-> pos]
        ELSE IF pos > Len(tokens) THEN [kind |-> "None", pos |-> pos]
        ELSE IF token.type = "Literal"
        THEN IF NESTED
             THEN Panic("literal should not be present in nested description", pos + 1)
             ELSE Ok([item |-> "Literal", value |-> token.value, span |-> token.span],
                     pos + 1)
        ELSE IF IsBracket(token, "Opening")
        THEN IF IsBracket(Peek(tokens, pos + 1), "Opening")
             THEN Ok([item |-> "EscapedBracket",
                      first |-> LocationOf(token),
                      second |-> LocationOf(Peek(tokens, pos + 1))],
                     pos + 2)
             ELSE parse_component(LocationOf(token), tokens, pos + 1)
        ELSE IF IsBracket(token, "Closing")
        THEN IF NESTED
             THEN Panic("closing bracket should be caught by the if statement", pos + 1)
             ELSE Panic("closing bracket should have been consumed by parse_component",
                        pos + 1)
        ELSE component_part(NESTED, token, pos)

\* the iterator drained into Result<_, _>: the items, or the first error
collect(NESTED, items, tokens, pos) ==
    LET next == parse_inner(NESTED, tokens, pos)
    IN  IF next.kind = "None" THEN Ok(items, next.pos)
        ELSE IF next.kind = "Ok" THEN collect(NESTED, Append(items, next.item), tokens, next.pos)
        ELSE next

\* parse(tokens), drained
parse(tokens) == collect(FALSE, <<>>, tokens, 1)

---------------------------------------------------------------------------
(***************************************************************************)
(* The lexer, as the specification describes it: a depth counter, an       *)
(* escaped pair "[[" given as two Opening brackets, text outside brackets  *)
(* as Literal, text inside brackets split into runs of whitespace and of   *)
(* anything else.  Byte i of the input is input[i + 1].                    *)
(***************************************************************************)
IsWhitespace(byte) == byte = " "

\* the index after the literal that starts at byte i: it runs up to the next "["
RECURSIVE literal_end(_, _)
literal_end(input, i) ==
    IF i + 1 < Len(input) /\ input[i + 2] # "["
    THEN literal_end(input, i + 1)
    ELSE i + 1

\* the index after the component part that starts at byte i
RECURSIVE component_part_end(_, _)
component_part_end(input, i) ==
    IF /\ i + 1 < Len(input)
       /\ input[i + 2] \notin {"[", "]"}
       /\ IsWhitespace(input[i + 2]) = IsWhitespace(input[i + 1])
    THEN component_part_end(input, i + 1)
    ELSE i + 1

RECURSIVE lex_from(_, _, _)
lex_from(input, i, depth) ==
    IF i >= Len(input) THEN <<>>
    ELSE LET byte == input[i + 1]
         IN  IF byte = "["
             THEN IF i + 1 < Len(input) /\ input[i + 2] = "["
                  THEN <<Token("Bracket", "Opening", <<"[">>, i),
                         Token("Bracket", "Opening", <<"[">>, i + 1)>>
                           \o lex_from(input, i + 2, depth)
                  ELSE <<Token("Bracket", "Opening", <<"[">>, i)>>
                           \o lex_from(input, i + 1, depth + 1)
             ELSE IF byte = "]" /\ depth > 0
             THEN <<Token("Bracket", "Closing", <<"]">>, i)>>
                      \o lex_from(input, i + 1, depth - 1)
             ELSE IF depth = 0
             THEN LET end == literal_end(input, i)
                  IN  <<Token("Literal", "-", SubSeq(input, i + 1, end), i)>>
                          \o lex_from(input, end, depth)
             ELSE LET end == component_part_end(input, i)
                  IN  <<Token("ComponentPart",
                              IF IsWhitespace(byte) THEN "Whitespace" ELSE "NotWhitespace",
                              SubSeq(input, i + 1, end), i)>>
                          \o lex_from(input, end, depth)

lex(input) == lex_from(input, 0, 0)

---------------------------------------------------------------------------
(***************************************************************************)
(* The AST specifications.  The token stream reaches the builder one token *)
(* at a time through a Peekable iterator, and the builder stops at its     *)
(* first error: a token is added to the stream only while the builder, on  *)
(* the stream so far, reads to its end.  Parse is the builder run on the   *)
(* whole stream.  In SpecAst the tokens are any tokens, with spans that    *)
(* follow one another; in SpecLexed they are the lexer's, of a text typed  *)
(* piece by piece.  text is the sequence of the pieces.                    *)
(***************************************************************************)
\* most tokens of a stream of SpecAst
MaxTokens == 8
\* most pieces of a text of SpecLexed
MaxPieces == 8

TokenShapes ==
    {[type |-> "Literal", kind |-> "-", value |-> <<"x">>],
     [type |-> "Bracket", kind |-> "Opening", value |-> <<"[">>],
     [type |-> "Bracket", kind |-> "Closing", value |-> <<"]">>],
     [type |-> "ComponentPart", kind |-> "Whitespace", value |-> <<" ">>]}
        \cup {[type |-> "ComponentPart", kind |-> "NotWhitespace", value |-> v] :
                v \in {<<"a">>, OPTIONAL, <<"k", "e", ":", "v">>, <<":", "v">>,
                       <<"k", ":">>, <<"k", ":", "v", ":", "w">>}}

Pieces == {<<"[">>, <<"]">>, <<" ">>, <<"a">>, OPTIONAL}

RECURSIVE Flatten(_)
Flatten(seqs) == IF seqs = <<>> THEN <<>> ELSE Head(seqs) \o Flatten(Tail(seqs))

\* the byte index after the last token
NextByte(tokens) == IF tokens = <<>> THEN 0 ELSE tokens[Len(tokens)].span.end + 1

\* the builder reads the stream to its end
ReadsToEnd(tokens) == parse(tokens).pos > Len(tokens)

AstInit ==
    /\ cursor = <<>>
    /\ call = NoCall
    /\ text = <<>>
    /\ stream = <<>>
    /\ parsed = NotParsed

LexToken ==
    \E shape \in TokenShapes :
        /\ parsed = NotParsed
        /\ Len(stream) < MaxTokens
        /\ ReadsToEnd(stream)
        /\ stream' = Append(stream,
                            Token(shape.type, shape.kind, shape.value, NextByte(stream)))
        /\ text' = Append(text, shape.value)
        /\ UNCHANGED <<cursor, call, parsed>>

TypePiece ==
    \E piece \in Pieces :
        /\ parsed = NotParsed
        /\ Len(text) < MaxPieces
        /\ ReadsToEnd(stream)
        /\ text' = Append(text, piece)
        /\ stream' = lex(Flatten(text'))
        /\ UNCHANGED <<cursor, call, parsed>>

Parse ==
    /\ parsed = NotParsed
    /\ parsed' = parse(stream)
    /\ UNCHANGED <<cursor, call, text, stream>>

AstNext == LexToken \/ Parse

LexedNext == TypePiece \/ Parse

SpecAst == AstInit /\ [][AstNext]_vars

SpecLexed == AstInit /\ [][LexedNext]_vars

---------------------------------------------------------------------------
(***************************************************************************)
(* What the AST claims speak of, stated on the token stream and the tree.  *)
(***************************************************************************)
\* bytes at consecutive locations from start on, as <<location, byte>>
Leaf(start, bytes) == [i \in 1..Len(bytes) |-> <<start + i - 1, bytes[i]>>]

SpannedLeaf(spanned) == Leaf(spanned.span.start, spanned.value)

OptionLeaf(option) == IF option = <<>> THEN <<>> ELSE SpannedLeaf(option[1])

RECURSIVE ModifiersBytes(_)
ModifiersBytes(modifiers) ==
    IF modifiers = <<>> THEN <<>>
    ELSE LET m == Head(modifiers)
         IN  SpannedLeaf(m.leading_whitespace) \o SpannedLeaf(m.key)
                 \o <<<<m.colon, ":">>>> \o SpannedLeaf(m.value)
                 \o ModifiersBytes(Tail(modifiers))

\* the stored positions and slices of an Item tree, read in order
RECURSIVE ItemBytes(_)
RECURSIVE ItemsBytes(_)
ItemBytes(i) ==
    CASE i.item = "Literal" -> Leaf(i.span.start, i.value)
      [] i.item = "EscapedBracket" -> <<<<i.first, "[">>, <<i.second, "[">>>>
      [] i.item = "Component" ->
            <<<<i.opening_bracket, "[">>>> \o OptionLeaf(i.leading_whitespace)
                \o SpannedLeaf(i.name) \o ModifiersBytes(i.modifiers)
                \o OptionLeaf(i.trailing_whitespace) \o <<<<i.closing_bracket, "]">>>>
      [] i.item = "Optional" ->
            LET nested == i.nested_format_description
            IN  <<<<i.opening_bracket, "[">>>> \o OptionLeaf(i.leading_whitespace)
                    \o SpannedLeaf(i.optional_kw) \o SpannedLeaf(i.whitespace)
                    \o <<<<nested.opening_bracket, "[">>>> \o ItemsBytes(nested.items)
                    \o <<<<nested.closing_bracket, "]">>>>
                    \o OptionLeaf(nested.trailing_whitespace)
                    \o <<<<i.closing_bracket, "]">>>>

ItemsBytes(items) ==
    IF items = <<>> THEN <<>> ELSE ItemBytes(Head(items)) \o ItemsBytes(Tail(items))

RECURSIVE TokensBytes(_)
TokensBytes(tokens) ==
    IF tokens = <<>> THEN <<>>
    ELSE Leaf(Head(tokens).span.start, Head(tokens).value) \o TokensBytes(Tail(tokens))

\* the components of a tree, those of nested descriptions too
RECURSIVE ComponentsOf(_)
ComponentsOf(items) ==
    IF items = <<>> THEN {}
    ELSE LET i == Head(items)
         IN  (CASE i.item = "Component" -> {i}
                [] i.item = "Optional" -> ComponentsOf(i.nested_format_description.items)
                [] OTHER -> {})
                 \cup ComponentsOf(Tail(items))

\* the Literal items of the nested descriptions of a tree
RECURSIVE NestedLiterals(_, _)
NestedLiterals(items, inside) ==
    IF items = <<>> THEN {}
    ELSE LET i == Head(items)
         IN  (CASE i.item = "Literal" -> IF inside THEN {i} ELSE {}
                [] i.item = "Optional" ->
                      NestedLiterals(i.nested_format_description.items, TRUE)
                [] OTHER -> {})
                 \cup NestedLiterals(Tail(items), inside)

\* the opening brackets left open, innermost last, by plain bracket matching
RECURSIVE Unmatched(_, _)
Unmatched(tokens, open) ==
    IF tokens = <<>> THEN open
    ELSE IF IsBracket(Head(tokens), "Opening")
    THEN Unmatched(Tail(tokens), Append(open, LocationOf(Head(tokens))))
    ELSE IF IsBracket(Head(tokens), "Closing")
    THEN Unmatched(Tail(tokens), Take(open, Len(open) - 1))
    ELSE Unmatched(Tail(tokens), open)

\* no two opening brackets in a row: plain bracket matching is the builder's
NoBracketPair(tokens) ==
    \A i \in 1..(Len(tokens) - 1) :
        ~(IsBracket(tokens[i], "Opening") /\ IsBracket(tokens[i + 1], "Opening"))

\* the 1-based place of the first colon, 0 when there is none
FirstColon(value) ==
    IF \E i \in 1..Len(value) : value[i] = ":"
    THEN CHOOSE i \in 1..Len(value) :
            value[i] = ":" /\ \A j \in 1..(i - 1) : value[j] # ":"
    ELSE 0

Colons(value) == Cardinality({i \in 1..Len(value) : value[i] = ":"})

Parsed == parsed # NotParsed

Failed(public) == parsed.kind = "Err" /\ parsed.error.public = public

FailedWith(public, value, index) ==
    /\ Failed(public)
    /\ parsed.error.value = value
    /\ parsed.error.index = index

\* the stream starts a component that is not `optional`, and its token 4 is
\* where the first modifier is to be
FirstModifierSlot ==
    /\ Parsed
    /\ Len(stream) >= 4
    /\ IsBracket(stream[1], "Opening")
    /\ IsComponentPart(stream[2], "NotWhitespace")
    /\ stream[2].value # OPTIONAL
    /\ IsComponentPart(stream[3], "Whitespace")

\* C5: on a stream the builder accepts, the stored positions and slices of
\* the tree, read in order, are the stream byte for byte: nothing consumed
\* is dropped, duplicated or moved.
C5_RoundTrip ==
    (Parsed /\ parsed.kind = "Ok") => ItemsBytes(parsed.item) = TokensBytes(stream)

\* an optional group with a nested item and whitespace after the nested
\* closing bracket
C5_Witness ==
    /\ Parsed /\ parsed.kind = "Ok"
    /\ Len(stream) = 8
    /\ Len(parsed.item) = 1
    /\ parsed.item[1].item = "Optional"
    /\ parsed.item[1].nested_format_description.items # <<>>
    /\ parsed.item[1].nested_format_description.trailing_whitespace # <<>>

\* C6: UnclosedOpeningBracket carries the index of the opening bracket that
\* was left unclosed: of the component itself, of the outer bracket of an
\* `optional` whose nested description was closed, of the nested description
\* itself when that is the one left open.
C6_UnclosedAnchor ==
    (Parsed /\ Failed("UnclosedOpeningBracket")) =>
        LET consumed == Take(stream, parsed.pos - 1)
            open == Unmatched(consumed, <<>>)
        IN  /\ \E i \in 1..Len(consumed) :
                  /\ IsBracket(consumed[i], "Opening")
                  /\ parsed.error.index = LocationOf(consumed[i])
            /\ NoBracketPair(consumed) =>
                  /\ open # <<>>
                  /\ parsed.error.index = open[Len(open)]

\* x[optional [] and no more: the nested description is closed, the outer
\* bracket, at byte 1, is not
C6_Witness ==
    /\ Parsed /\ Failed("UnclosedOpeningBracket")
    /\ Len(stream) = 6
    /\ stream[1].type = "Literal"
    /\ IsBracket(stream[2], "Opening")
    /\ stream[3].value = OPTIONAL
    /\ IsBracket(stream[5], "Opening")
    /\ IsBracket(stream[6], "Closing")
    /\ parsed.error.index = 1

\* the token stream of "[]"
BracketPair ==
    <<Token("Bracket", "Opening", <<"[">>, 0), Token("Bracket", "Closing", <<"]">>, 1)>>

\* C7, as claimed: "[]" fails with MissingComponentName at index 1.
C7_Original ==
    (Parsed /\ stream = BracketPair) =>
        Failed("MissingComponentName") /\ parsed.error.index = 1

\* C7, amended: "[]" fails with MissingComponentName at index 0, the index
\* of the opening bracket; MissingComponentName is at the start of the
\* whitespace after the bracket when there is some, at the bracket if not.
C7_Amended ==
    /\ (Parsed /\ stream = BracketPair) =>
          Failed("MissingComponentName") /\ parsed.error.index = 0
    /\ (Parsed /\ Failed("MissingComponentName")) =>
          LET before == stream[parsed.pos - 1]
          IN  /\ IsBracket(before, "Opening") \/ IsComponentPart(before, "Whitespace")
              /\ parsed.error.index = before.span.start

C7_Witness ==
    /\ Parsed /\ stream = BracketPair
    /\ Failed("MissingComponentName")
    /\ parsed.error.index = 0

\* C8, as claimed: a token in modifier position is a modifier only with
\* exactly one colon; with none, or with two or more, the parse fails with
\* InvalidModifier.
C8_Original ==
    /\ (FirstModifierSlot /\ IsComponentPart(stream[4], "NotWhitespace")) =>
          /\ Colons(stream[4].value) # 1 => Failed("InvalidModifier")
          /\ parsed.kind = "Ok" => Colons(stream[4].value) = 1
    /\ (Parsed /\ parsed.kind = "Ok") =>
          \A c \in ComponentsOf(parsed.item) : \A i \in 1..Len(c.modifiers) :
              Colons(c.modifiers[i].key.value \o c.modifiers[i].value.value) = 0

\* C8, amended: a token in modifier position is split at its first colon.
\* With no colon, or nothing before or after the first colon, the parse
\* fails with InvalidModifier; otherwise the token is a modifier, key the
\* bytes before the first colon, value all the bytes after it, colons too.
C8_Amended ==
    /\ (FirstModifierSlot /\ IsComponentPart(stream[4], "NotWhitespace")) =>
          LET v == stream[4].value
              c == FirstColon(v)
          IN  IF c = 0 \/ c = 1 \/ c = Len(v)
              THEN Failed("InvalidModifier") /\ parsed.pos = 5
              ELSE /\ Failed("InvalidModifier") => parsed.pos > 5
                   /\ parsed.kind = "Ok" =>
                         /\ parsed.item[1].item = "Component"
                         /\ parsed.item[1].modifiers[1].key.value = Take(v, c - 1)
                         /\ parsed.item[1].modifiers[1].value.value = Drop(v, c)
    /\ (Parsed /\ parsed.kind = "Ok") =>
          \A c \in ComponentsOf(parsed.item) : \A i \in 1..Len(c.modifiers) :
              /\ c.modifiers[i].key.value # <<>>
              /\ c.modifiers[i].value.value # <<>>
              /\ Colons(c.modifiers[i].key.value) = 0

\* k:v:w is taken as the modifier k with the value v:w
C8_Witness ==
    /\ FirstModifierSlot
    /\ stream[4].value = <<"k", ":", "v", ":", "w">>
    /\ parsed.kind = "Ok"
    /\ parsed.item[1].modifiers[1].key.value = <<"k">>
    /\ parsed.item[1].modifiers[1].value.value = <<"v", ":", "w">>

\* C9: InvalidModifier carries the offending text and its place: a token
\* with no colon, its text and its start; an empty key, the empty string and
\* the token's start; an empty value, the empty string and the token's end;
\* an opening bracket where a modifier is expected, "[" and the bracket's
\* index.  The parse gives the error and no item.
C9_InvalidModifierData ==
    /\ FirstModifierSlot =>
          LET t == stream[4]
              c == FirstColon(t.value)
          IN  /\ IsBracket(t, "Opening") =>
                    FailedWith("InvalidModifier", <<"[">>, LocationOf(t))
              /\ (IsComponentPart(t, "NotWhitespace") /\ c = 0) =>
                    FailedWith("InvalidModifier", t.value, t.span.start)
              /\ (IsComponentPart(t, "NotWhitespace") /\ c = 1) =>
                    FailedWith("InvalidModifier", <<>>, t.span.start)
              /\ (IsComponentPart(t, "NotWhitespace") /\ c > 1 /\ c = Len(t.value)) =>
                    FailedWith("InvalidModifier", <<>>, t.span.end)
    /\ (Parsed /\ Failed("InvalidModifier")) =>
          LET next == Peek(stream, parsed.pos)
              t == stream[parsed.pos - 1]
              c == FirstColon(t.value)
          IN  \/ /\ IsBracket(next, "Opening")
                 /\ IsComponentPart(t, "Whitespace")
                 /\ parsed.error.value = <<"[">>
                 /\ parsed.error.index = LocationOf(next)
              \/ /\ IsComponentPart(t, "NotWhitespace")
                 /\ c = 0
                 /\ parsed.error.value = t.value
                 /\ parsed.error.index = t.span.start
              \/ /\ IsComponentPart(t, "NotWhitespace")
                 /\ c = 1
                 /\ parsed.error.value = <<>>
                 /\ parsed.error.index = t.span.start
              \/ /\ IsComponentPart(t, "NotWhitespace")
                 /\ c > 1 /\ c = Len(t.value)
                 /\ parsed.error.value = <<>>
                 /\ parsed.error.index = t.span.end

\* [a k: the value is empty, the error is at the colon, the token's last byte
C9_Witness ==
    /\ FirstModifierSlot
    /\ stream[4].value = <<"k", ":">>
    /\ FailedWith("InvalidModifier", <<>>, stream[4].span.end)
    /\ stream[4].span.end = stream[4].span.start + 1

NestedUnreachable ==
    {"literal should not be present in nested description",
     "closing bracket should be caught by the if statement"}

\* C10: on the lexer's token streams the body of an `optional` group never
\* reaches an `unreachable!` of parse_inner, and every Literal item of a
\* nested description is a component-part token of the stream, bytes and
\* span.
C10_NestedNeverPanics ==
    /\ (Parsed /\ parsed.kind = "Panic") => parsed.message \notin NestedUnreachable
    /\ (Parsed /\ parsed.kind = "Ok") =>
          \A l \in NestedLiterals(parsed.item, FALSE) :
              \E i \in 1..Len(stream) :
                  /\ stream[i].type = "ComponentPart"
                  /\ stream[i].value = l.value
                  /\ stream[i].span = l.span

=============================================================================
